---------------------------- MODULE Spec2Model ----------------------------
(***************************************************************************)
(* The Foco Timer session state machine (src/src/App.tsx and its variant   *)
(* src/unnamed/part_000): one React component whose state is the session,  *)
(* a load effect and a save effect that mirror it to localStorage, and a   *)
(* timer effect that arms a one-second interval and runs the completion    *)
(* handling.                                                               *)
(*                                                                         *)
(* A step of the model is one handler (or one interval callback) with the  *)
(* commit of the state updates it batches, or one flush of the effects of  *)
(* the last commit.  React runs the effects of a commit before it renders  *)
(* any later update, so while effects are pending (phase = "effects") the  *)
(* only steps are that flush and the page being reloaded.                  *)
(*                                                                         *)
(* Time is in milliseconds, as Date.now() gives it.  The variable now is   *)
(* the clock as the program last read it; every step that reads the clock  *)
(* draws a later reading.                                                  *)
(***************************************************************************)
EXTENDS Integers, Sequences, FiniteSets, TLC

(***************************************************************************)
(* Bounds of the model.                                                    *)
(***************************************************************************)
\* The clock reading at the first mount.
Epoch == 1000000
\* Sub-second and one-second clock advances are drawn while the clock is
\* within FineSpan ms of Epoch.
FineSpan == 1400
\* A new deadline is set (start, resume) only within MaxElapsed ms of Epoch.
MaxElapsed == 70000

\* Clock advances between two readings (ms).
Delays == {400, 1000}
\* A long absence (paused session, closed tab) in ms.
Away == {60000}
\* Clock readings relative to a deadline (ms): at the rounding tie, just
\* inside the last half second, on it, late.
Offsets == {-500, -499, 0, 700}

(***************************************************************************)
(* JavaScript values that are not plain integers or strings in the model:  *)
(* what JSON.parse yields, and the nullable deadline.                      *)
(***************************************************************************)
Num(n) == [t |-> "num", n |-> n]
Str(s) == [t |-> "str", s |-> s]
Null == [t |-> "null"]
Undefined == [t |-> "undefined"]
NaN == [t |-> "nan"]

\* JavaScript's falsy values, as `a || b` and `if (a)` test them.
Falsy(v) ==
    \/ v.t \in {"null", "undefined", "nan"}
    \/ (v.t = "num" /\ v.n = 0)
    \/ (v.t = "str" /\ v.s = "")

\* a || b
Or(a, b) == IF Falsy(a) THEN b ELSE a

\* Math.round(r / 1000) for an integer r: the nearest integer, ties upwards.
RoundSeconds(r) == (r + 500) \div 1000

Max(a, b) == IF a >= b THEN a ELSE b

(***************************************************************************)
(* localStorage under the key "pomodoroAppState".  A stored string is      *)
(* modelled by what JSON.parse makes of it.                                *)
(***************************************************************************)
NoItem == [kind |-> "none"]
EmptyText == [kind |-> "empty"]
Malformed == [kind |-> "malformed"]
Item(v) == [kind |-> "json", value |-> v]

SnapshotFields ==
    {"focusDuration", "breakDuration", "mode", "status", "timeLeft",
     "completionMessage", "deadline"}

\* A JSON object with the snapshot's fields; a field the object lacks reads
\* as undefined.
Obj(fd, bd, m, s, tl, cm, dl) ==
    [t |-> "obj", focusDuration |-> fd, breakDuration |-> bd, mode |-> m,
     status |-> s, timeLeft |-> tl, completionMessage |-> cm, deadline |-> dl]

\* savedState.<field>: undefined on a primitive, the field on an object.
\* (On null the access throws: see LoadThrows.)
Get(v, f) == IF v.t = "obj" THEN v[f] ELSE Undefined

(***************************************************************************)
(* Program constants.                                                      *)
(***************************************************************************)
AppFocusDefault == 50
PartFocusDefault == 30
BreakDefault == 10

VARIABLES
    variant,            \* "App" (src/src/App.tsx) or "Part" (src/unnamed/part_000)
    focusDuration,
    breakDuration,
    mode,
    status,
    timeLeft,
    completionMessage,
    deadline,           \* Null or Num(ms)
    isInitialized,
    storage,            \* the item under "pomodoroAppState"
    now,                \* the last reading of Date.now()
    interval,           \* Null, or Num(d): an armed setInterval whose callback captured deadline d
    audio,              \* "off" or "loop": audioRef of the variant Part
    playing,            \* the number of Audio elements playing in a loop
    phase,              \* "mount": mounted, effects of the first render pending;
                        \* "effects": a commit's effects pending; "ready": idle
    lastOp              \* history: the handler, callback or effect whose commit
                        \* is pending its effects ("none" once they have run)

vars ==
    <<variant, focusDuration, breakDuration, mode, status, timeLeft,
      completionMessage, deadline, isInitialized, storage, now, interval,
      audio, playing, phase, lastOp>>

session == <<focusDuration, breakDuration, mode, status, timeLeft, completionMessage, deadline>>

DefaultFocus == IF variant = "App" THEN AppFocusDefault ELSE PartFocusDefault


(***************************************************************************)
(* parseInt(text, 10) on the text of a duration input.  A text is a        *)
(* sequence of one-character strings.                                      *)
(***************************************************************************)
DigitChars == {"0", "1", "2", "3", "4", "5", "6", "7", "8", "9"}

DigitValue(c) ==
    CASE c = "0" -> 0 [] c = "1" -> 1 [] c = "2" -> 2 [] c = "3" -> 3
      [] c = "4" -> 4 [] c = "5" -> 5 [] c = "6" -> 6 [] c = "7" -> 7
      [] c = "8" -> 8 [] c = "9" -> 9

\* The white space parseInt strips from the front of its argument (StrWhiteSpaceChar):
\* tab, line feed, form feed, carriage return, space, and then the vertical
\* tab, the no-break space, U+FEFF and U+1680. The other space separators
\* (U+2000 to U+200A, U+2028, U+2029, U+202F, U+205F, U+3000) cannot be written
\* in a string here, so no text of the model contains them.
WhiteSpaceChars ==
    {"\t", "\n", "\f", "\r", " ", "", " ", "﻿", " "}

RECURSIVE SkipSpaces(_)
SkipSpaces(s) ==
    IF s # <<>> /\ Head(s) \in WhiteSpaceChars THEN SkipSpaces(Tail(s)) ELSE s

\* The value of the longest prefix of s made of digits, read after acc.
RECURSIVE DigitsValue(_, _)
DigitsValue(s, acc) ==
    IF s # <<>> /\ Head(s) \in DigitChars
    THEN DigitsValue(Tail(s), acc * 10 + DigitValue(Head(s)))
    ELSE acc

ParseInt(text) ==
    LET body == SkipSpaces(text)
        signed == body # <<>> /\ Head(body) \in {"+", "-"}
        negative == body # <<>> /\ Head(body) = "-"
        digits == IF signed THEN Tail(body) ELSE body
    IN  IF digits = <<>> \/ Head(digits) \notin DigitChars
        THEN NaN
        ELSE Num((IF negative THEN -1 ELSE 1) * DigitsValue(digits, 0))

\* parseInt(e.target.value, 10) || 1
DurationValue(text) == Or(ParseInt(text), Num(1)).n

\* The texts typed into the duration inputs.
Inputs ==
    {<<>>, <<"0">>, <<"-", "1">>, <<"\t", " ", "1", "m">>}

(***************************************************************************)
(* The load effect (App.tsx 27-68, part_000 29-62).                        *)
(***************************************************************************)
\* if (savedStateJSON) fails: nothing stored, or the empty string.
LoadSkips(item) == item.kind \in {"none", "empty"}

\* Mutant: fields are read with optional chaining, so null does not throw.
MutThrowsOnlyParse(item) == item.kind = "malformed"

\* JSON.parse throws on a malformed text; property access throws on null.
LoadThrows(item) ==
    \/ item.kind = "malformed"
    \/ (item.kind = "json" /\ item.value.t = "null")

\* savedState.status === "running" && savedState.deadline
LoadResumes(v) ==
    Get(v, "status") = Str("running") /\ ~Falsy(Get(v, "deadline"))

\* Mutant: the stored timeLeft is trusted for a running snapshot.
MutLoadTrustsStored(v, t) == Get(v, "timeLeft").n

\* The timeLeft the load effect sets for a running snapshot read at clock t.
LoadTimeLeftRunning(v, t) ==
    LET remaining == Get(v, "deadline").n - t
    IN  IF remaining > 0 THEN RoundSeconds(remaining) ELSE 0

\* Mutant: the stored timeLeft is dropped for the configured duration.
MutLoadFromDuration(v) ==
    Or(Get(v, "focusDuration"), Num(DefaultFocus)).n * 60

\* The timeLeft the load effect sets for a snapshot that is not running.
LoadTimeLeftStored(v) ==
    IF Get(v, "timeLeft") # Undefined
    THEN Get(v, "timeLeft").n
    ELSE Or(Get(v, "focusDuration"), Num(DefaultFocus)).n * 60

\* The session the setters of the load effect leave, for the parsed value v
\* read at clock t.
Loaded(v, t) ==
    [focusDuration |-> Or(Get(v, "focusDuration"), Num(DefaultFocus)).n,
     breakDuration |-> Or(Get(v, "breakDuration"), Num(BreakDefault)).n,
     mode |-> Or(Get(v, "mode"), Str("focus")).s,
     completionMessage |-> Or(Get(v, "completionMessage"), Str("")).s,
     status |-> IF LoadResumes(v) THEN "running"
                ELSE Or(Get(v, "status"), Str("idle")).s,
     timeLeft |-> IF LoadResumes(v) THEN LoadTimeLeftRunning(v, t)
                  ELSE LoadTimeLeftStored(v),
     deadline |-> IF LoadResumes(v) THEN Get(v, "deadline") ELSE Null]

(***************************************************************************)
(* The save effect (App.tsx 71-98, part_000 65-83).                        *)
(***************************************************************************)
\* JSON.stringify(stateToSave), as JSON.parse reads it back.
StateToSave(fd, bd, m, s, tl, cm, dl) ==
    Item(Obj(Num(fd), Num(bd), Str(m), Str(s), Num(tl), Str(cm), dl))

SavedNow ==
    StateToSave(focusDuration, breakDuration, mode, status, timeLeft,
                completionMessage, deadline)

\* Mutant: the save effect lacks its isInitialized guard.
MutSavedUnguarded(current) == SavedNow

\* The item the save effect leaves, run in a render whose state is the
\* current one, over the item `current`: if (!isInitialized) return;
Saved(current) == IF isInitialized THEN SavedNow ELSE current

(***************************************************************************)
(* Clock readings.                                                         *)
(***************************************************************************)
\* Readings a handler or the load effect may draw: the clock has not moved,
\* has moved a little, or a long absence has passed.
LaterTimes ==
    {now}
    \cup {t \in {now + d : d \in Delays} : t <= Epoch + FineSpan}
    \cup {t \in {now + d : d \in Away} : t <= Epoch + MaxElapsed}

\* Readings around the deadline d, not before the last reading.
AroundDeadline(d) == {t \in {d + o : o \in Offsets} : t >= now}

\* The readings of the load effect for the stored item.
LoadTimes(item) ==
    IF LoadSkips(item) \/ LoadThrows(item) \/ ~LoadResumes(item.value)
    THEN {now}
    ELSE LaterTimes \cup AroundDeadline(Get(item.value, "deadline").n)

\* setInterval(..., 1000): the callback fires a second or more after the
\* effect armed it.
TickTimes(d) == {t \in LaterTimes \cup AroundDeadline(d) : t >= now + 1000}

(***************************************************************************)
(* Mount and the load effect.                                              *)
(***************************************************************************)
InitSession ==
    /\ variant \in {"App", "Part"}
    /\ focusDuration = DefaultFocus
    /\ breakDuration = BreakDefault
    /\ mode = "focus"
    /\ status = "idle"
    /\ timeLeft = DefaultFocus * 60
    /\ completionMessage = ""
    /\ deadline = Null
    /\ isInitialized = FALSE
    /\ now = Epoch
    /\ interval = Null
    /\ audio = "off"
    /\ playing = 0
    /\ phase = "mount"
    /\ lastOp = "mount"

\* A first visit: nothing is stored.
Init == InitSession /\ storage = NoItem

\* The effects of the first render: the load effect; then the save effect,
\* which runs in that render's state (the default session, isInitialized
\* false) and returns; the timer effect sees the idle default session and
\* arms nothing.
LoadEffect ==
    /\ phase = "mount"
    /\ \E t \in LoadTimes(storage) :
        /\ now' = t
        /\ IF LoadSkips(storage)
           THEN /\ UNCHANGED session
                /\ storage' = Saved(storage)
                /\ lastOp' = "loadAbsent"
           ELSE IF LoadThrows(storage)
           THEN /\ UNCHANGED session
                /\ storage' = Saved(NoItem)
                /\ lastOp' = "loadFailed"
           ELSE LET l == Loaded(storage.value, t)
                IN  /\ focusDuration' = l.focusDuration
                    /\ breakDuration' = l.breakDuration
                    /\ mode' = l.mode
                    /\ completionMessage' = l.completionMessage
                    /\ status' = l.status
                    /\ timeLeft' = l.timeLeft
                    /\ deadline' = l.deadline
                    /\ storage' = Saved(storage)
                    /\ lastOp' = "load"
    /\ isInitialized' = TRUE
    /\ phase' = "effects"
    /\ UNCHANGED <<variant, interval, audio, playing>>

\* The page is reloaded (or closed and opened again): the component is torn
\* down, its interval and audio with it, and mounted anew with the initial
\* state.  Storage is what the last save effect left.
Reload ==
    /\ focusDuration' = DefaultFocus
    /\ breakDuration' = BreakDefault
    /\ mode' = "focus"
    /\ status' = "idle"
    /\ timeLeft' = DefaultFocus * 60
    /\ completionMessage' = ""
    /\ deadline' = Null
    /\ isInitialized' = FALSE
    /\ interval' = Null
    /\ audio' = "off"
    /\ playing' = 0
    /\ phase' = "mount"
    /\ lastOp' = "mount"
    /\ UNCHANGED <<variant, storage, now>>

(***************************************************************************)
(* handleTimerCompletion (App.tsx 146-159, part_000 124-140).              *)
(***************************************************************************)
\* Mutant: the end of a break restarts from the break duration.
MutCompletedFromBreak ==
    IF mode = "focus"
    THEN [focusDuration |-> focusDuration,
          breakDuration |-> IF variant = "App" THEN breakDuration ELSE 10,
          mode |-> "break", completionMessage |-> "Foco finalizado",
          timeLeft |-> (IF variant = "App" THEN breakDuration ELSE 10) * 60,
          audio |-> audio]
    ELSE [focusDuration |-> IF variant = "App" THEN focusDuration ELSE 30,
          breakDuration |-> IF variant = "App" THEN breakDuration ELSE 10,
          mode |-> "focus",
          completionMessage |-> IF variant = "App" THEN "Fim da pausa" ELSE "",
          timeLeft |-> (IF variant = "App" THEN breakDuration ELSE 10) * 60,
          audio |-> IF variant = "App" THEN audio ELSE "loop"]

\* The session and audio after the completion handling, per variant.
Completed ==
    IF variant = "App"
    THEN IF mode = "focus"
         THEN [focusDuration |-> focusDuration, breakDuration |-> breakDuration,
               mode |-> "break", completionMessage |-> "Foco finalizado",
               timeLeft |-> breakDuration * 60, audio |-> audio]
         ELSE [focusDuration |-> focusDuration, breakDuration |-> breakDuration,
               mode |-> "focus", completionMessage |-> "Fim da pausa",
               timeLeft |-> focusDuration * 60, audio |-> audio]
    ELSE IF mode = "focus"
         THEN [focusDuration |-> focusDuration, breakDuration |-> 10,
               mode |-> "break", completionMessage |-> "Foco finalizado",
               timeLeft |-> 10 * 60, audio |-> audio]
         ELSE [focusDuration |-> 30, breakDuration |-> 10,
               mode |-> "focus", completionMessage |-> "",
               timeLeft |-> 30 * 60, audio |-> "loop"]

\* playSound (part_000 107-115): the element audioRef holds is paused, and a
\* new one plays.
Played == (IF audio = "loop" THEN playing - 1 ELSE playing) + 1

\* The elements playing after the completion handling: only part_000's end
\* of a break calls playSound(true).
CompletedPlaying ==
    IF variant = "Part" /\ mode # "focus" THEN Played ELSE playing

\* Mutant: the completion handling forgets setStatus("idle").
MutCompletedKeepsStatus == status

\* The status handleTimerCompletion sets.
CompletedStatus == "idle"

HandleTimerCompletion ==
    /\ deadline' = Null
    /\ status' = CompletedStatus
    /\ focusDuration' = Completed.focusDuration
    /\ breakDuration' = Completed.breakDuration
    /\ mode' = Completed.mode
    /\ completionMessage' = Completed.completionMessage
    /\ timeLeft' = Completed.timeLeft
    /\ audio' = Completed.audio
    /\ playing' = CompletedPlaying

(***************************************************************************)
(* The effects of a commit: the save effect, then the timer effect         *)
(* (App.tsx 71-98 and 162-182, part_000 65-83 and 143-158).                *)
(***************************************************************************)
\* Mutant: the guard tests timeLeft < 0.
MutExpiredStrict == timeLeft < 0 /\ status = "running"

\* if (timeLeft <= 0 && status === "running")
TimerExpired == timeLeft <= 0 /\ status = "running"

\* Mutant: the timer effect returns no cleanup, so an interval armed earlier
\* stays armed when the status leaves running.
MutArmedKept ==
    IF status = "running" /\ ~Falsy(deadline) THEN deadline ELSE interval

\* The interval the timer effect leaves armed: its cleanup clears the one of
\* the previous run, and a new one is set while running with a deadline.
Armed == IF status = "running" /\ ~Falsy(deadline) THEN deadline ELSE Null

RunEffects ==
    /\ phase = "effects"
    /\ storage' = Saved(storage)
    /\ IF TimerExpired
       THEN /\ HandleTimerCompletion
            /\ interval' = Null
            /\ phase' = "effects"
            /\ lastOp' = "complete"
       ELSE /\ interval' = Armed
            /\ phase' = "ready"
            /\ lastOp' = "none"
            /\ UNCHANGED <<session, audio, playing>>
    /\ UNCHANGED <<variant, isInitialized, now>>

\* Mutant: the callback counts down instead of reading the clock.
MutTickDecrement(d, t) == Max(0, timeLeft - 1)

\* The interval callback (App.tsx 171-174, part_000 150-153), for the
\* captured deadline d read at clock t.
TickTimeLeft(d, t) == Max(0, RoundSeconds(d - t))

Tick ==
    /\ phase = "ready"
    /\ interval # Null
    /\ \E t \in TickTimes(interval.n) :
        /\ now' = t
        /\ timeLeft' = TickTimeLeft(interval.n, t)
    /\ phase' = "effects"
    /\ lastOp' = "tick"
    /\ UNCHANGED <<variant, focusDuration, breakDuration, mode, status,
                   completionMessage, deadline, isInitialized, storage,
                   interval, audio, playing>>

(***************************************************************************)
(* The handlers (App.tsx 184-235, part_000 160-212).  A handler runs on    *)
(* the committed state of the last render, once its effects have run.      *)
(***************************************************************************)
\* Mutant: seconds added to milliseconds.
MutDeadlineNoScale(t) == Num(t + timeLeft)

\* Date.now() + timeLeft * 1000
DeadlineFrom(t) == Num(t + timeLeft * 1000)

\* stopSound (part_000 117-122): the element audioRef holds is paused.
Stopped == IF audio = "loop" THEN playing - 1 ELSE playing

\* The elements playing after startTimer.
StartPlaying == IF variant = "Part" THEN Stopped ELSE playing

\* Mutant: startTimer does not call stopSound.
MutStartKeepsAudio == audio

\* The audio after stopSound(), which only part_000's startTimer calls.
StartAudio == IF variant = "Part" THEN "off" ELSE audio

\* Mutant: startTimer forgets setCompletionMessage("").
MutStartKeepsMessage == completionMessage

\* The completion message startTimer leaves.
StartedMessage == ""

StartTimer ==
    /\ phase = "ready"
    /\ now <= Epoch + MaxElapsed
    /\ \E t \in LaterTimes :
        /\ now' = t
        /\ deadline' = DeadlineFrom(t)
    /\ audio' = StartAudio
    /\ playing' = StartPlaying
    /\ completionMessage' = StartedMessage
    /\ status' = "running"
    /\ phase' = "effects"
    /\ lastOp' = "start"
    /\ UNCHANGED <<variant, focusDuration, breakDuration, mode, timeLeft,
                   isInitialized, storage, interval>>

\* Mutant: pausing forgets setDeadline(null).
MutPauseKeepsDeadline == deadline

\* The deadline togglePause leaves when it pauses.
PausedDeadline == Null

\* togglePause with prevStatus "running"
Pause ==
    /\ phase = "ready"
    /\ status = "running"
    /\ deadline' = PausedDeadline
    /\ status' = "paused"
    /\ phase' = "effects"
    /\ lastOp' = "pause"
    /\ UNCHANGED <<variant, focusDuration, breakDuration, mode, timeLeft,
                   completionMessage, isInitialized, storage, now, interval,
                   audio, playing>>

\* togglePause with prevStatus "paused"
Resume ==
    /\ phase = "ready"
    /\ status = "paused"
    /\ now <= Epoch + MaxElapsed
    /\ \E t \in LaterTimes :
        /\ now' = t
        /\ deadline' = DeadlineFrom(t)
    /\ status' = "running"
    /\ phase' = "effects"
    /\ lastOp' = "resume"
    /\ UNCHANGED <<variant, focusDuration, breakDuration, mode, timeLeft,
                   completionMessage, isInitialized, storage, interval,
                   audio, playing>>

\* togglePause with any other prevStatus: the updater returns prevStatus and
\* nothing is rendered.
ToggleIdle ==
    /\ phase = "ready"
    /\ status \notin {"running", "paused"}
    /\ UNCHANGED vars

TogglePause == Pause \/ Resume \/ ToggleIdle

\* Mutant: reset always restores the focus duration.
MutResetToFocus == focusDuration * 60

\* (mode === "focus" ? focusDuration : breakDuration) * 60
ResetTimeLeft ==
    (IF mode = "focus" THEN focusDuration ELSE breakDuration) * 60

ResetTimer ==
    /\ phase = "ready"
    /\ status' = "idle"
    /\ deadline' = Null
    /\ completionMessage' = ""
    /\ timeLeft' = ResetTimeLeft
    /\ phase' = "effects"
    /\ lastOp' = "reset"
    /\ UNCHANGED <<variant, focusDuration, breakDuration, mode,
                   isInitialized, storage, now, interval, audio, playing>>

\* The focus duration resetToStart leaves: App.tsx keeps the configured one,
\* part_000 sets its default of 30.
ResetFocusDuration == IF variant = "App" THEN focusDuration ELSE 30

ResetToStart ==
    /\ phase = "ready"
    /\ focusDuration' = ResetFocusDuration
    /\ mode' = "focus"
    /\ status' = "idle"
    /\ deadline' = Null
    /\ completionMessage' = ""
    /\ timeLeft' = ResetFocusDuration * 60
    /\ phase' = "effects"
    /\ lastOp' = "resetToStart"
    /\ UNCHANGED <<variant, breakDuration, isInitialized, storage, now,
                   interval, audio, playing>>

\* Mutant: an edit sets timeLeft whatever the status and the mode.
MutEditedAlways(value, edited) == value * 60

\* Mutant: an edit while idle sets timeLeft whichever duration is edited.
MutEditedAnyMode(value, edited) ==
    IF status = "idle" THEN value * 60 ELSE timeLeft

\* Mutant: an edit sets timeLeft in minutes.
MutEditedNoScale(value, edited) ==
    IF status = "idle" /\ mode = edited THEN value ELSE timeLeft

\* The timeLeft an edit of the duration of the mode `edited` to value leaves:
\* if (status === "idle" && mode === edited) setTimeLeft(value * 60)
EditedTimeLeft(value, edited) ==
    IF status = "idle" /\ mode = edited THEN value * 60 ELSE timeLeft

UpdateFocusDuration ==
    /\ phase = "ready"
    /\ \E text \in Inputs :
        LET value == DurationValue(text)
        IN  /\ focusDuration' = value
            /\ timeLeft' = EditedTimeLeft(value, "focus")
    /\ phase' = "effects"
    /\ lastOp' = "editFocus"
    /\ UNCHANGED <<variant, breakDuration, mode, status, completionMessage,
                   deadline, isInitialized, storage, now, interval, audio, playing>>

UpdateBreakDuration ==
    /\ phase = "ready"
    /\ \E text \in Inputs :
        LET value == DurationValue(text)
        IN  /\ breakDuration' = value
            /\ timeLeft' = EditedTimeLeft(value, "break")
    /\ phase' = "effects"
    /\ lastOp' = "editBreak"
    /\ UNCHANGED <<variant, focusDuration, mode, status, completionMessage,
                   deadline, isInitialized, storage, now, interval, audio, playing>>

(***************************************************************************)
(* The specifications.                                                     *)
(***************************************************************************)
Next ==
    \/ LoadEffect
    \/ RunEffects
    \/ Tick
    \/ StartTimer
    \/ TogglePause
    \/ ResetTimer
    \/ ResetToStart
    \/ UpdateFocusDuration
    \/ UpdateBreakDuration
    \/ Reload

Spec == Init /\ [][Next]_vars

(***************************************************************************)
(* A mount that finds an item the program did not write: texts that do not *)
(* parse, JSON that is no object, objects that lack fields, and objects    *)
(* whose fields are inconsistent.                                          *)
(***************************************************************************)
\* {"status":"running","timeLeft":90,...} with "deadline":null
RunningNoDeadline ==
    Obj(Num(2), Num(1), Str("focus"), Str("running"), Num(90), Str(""), Null)

\* a paused snapshot with a negative timeLeft
NegativeTimeLeft ==
    Obj(Num(2), Num(1), Str("focus"), Str("paused"), Num(-5), Str(""), Null)

\* mode and status outside their enumerations
OutsideEnums ==
    Obj(Num(2), Num(1), Str("siesta"), Str("done"), Num(120), Str(""), Null)

\* {}
EmptyObject ==
    Obj(Undefined, Undefined, Undefined, Undefined, Undefined, Undefined,
        Undefined)

CorruptObjects == {RunningNoDeadline, NegativeTimeLeft, OutsideEnums}

StoredInputs ==
    {NoItem, EmptyText, Malformed, Item(Null), Item(Num(5)), Item(EmptyObject)}
    \cup {Item(o) : o \in CorruptObjects}

InitStored == InitSession /\ storage \in StoredInputs

StoredSpec == InitStored /\ [][Next]_vars

(***************************************************************************)
(* An unattended run: the user sets the durations and starts an interval   *)
(* while the session is idle, and then leaves it to the interval callback. *)
(* The browser keeps firing the armed interval and React keeps flushing    *)
(* the effects of every commit.                                            *)
(***************************************************************************)
Unattended ==
    \/ LoadEffect
    \/ RunEffects
    \/ Tick
    \/ (status = "idle" /\ StartTimer)
    \/ (status = "idle" /\ UpdateFocusDuration)
    \/ (status = "idle" /\ UpdateBreakDuration)

LiveSpec ==
    Init /\ [][Unattended]_vars /\ WF_vars(Tick) /\ WF_vars(RunEffects)

(***************************************************************************)
(* Properties.                                                             *)
(***************************************************************************)
\* The remaining milliseconds to deadline d at clock t, never negative.
Remaining(d, t) == IF d - t > 0 THEN d - t ELSE 0

\* secs is the whole number of seconds nearest to ms milliseconds (a tie
\* goes to the larger).
NearestSecond(secs, ms) == 1000 * secs - 500 <= ms /\ ms < 1000 * secs + 500

\* C1: in every state reached from the default session with nothing stored,
\* through handlers, ticks, completions and reloads of the program's own
\* snapshots, deadline is present exactly when status is "running".
DeadlineIffRunning == (deadline # Null) <=> (status = "running")

\* A running snapshot has been saved, the page reloaded and the snapshot
\* loaded with its deadline.
DeadlineIffRunningWitness ==
    lastOp = "load" /\ status = "running" /\ deadline # Null /\ timeLeft > 0

\* C2: a commit with status "running" and timeLeft <= 0 has its effects
\* pending and nothing but the completion handling (or the page closing)
\* follows it; the completion handling runs only from such a commit and
\* leaves a session that is not expired, so it runs once per expiry.
CompletionExactlyOnce ==
    /\ [](status = "running" /\ timeLeft <= 0 => phase = "effects")
    /\ [][/\ (status = "running" /\ timeLeft <= 0)
             => (lastOp' = "complete" \/ phase' = "mount")
          /\ lastOp' = "complete"
             => /\ status = "running" /\ timeLeft <= 0
                /\ lastOp # "complete"
                /\ status' = "idle"
                /\ ~(status' = "running" /\ timeLeft' <= 0)]_vars

\* An interval has expired by a tick and its completion has been handled.
CompletionExactlyOnceWitness ==
    /\ lastOp = "complete"
    /\ status = "idle"
    /\ mode = "break"
    /\ focusDuration > 0
    /\ now > Epoch + MaxElapsed

\* C3: once a focus interval runs and the user leaves it alone, the session
\* reaches the idle break with no deadline and timeLeft = breakDuration * 60.
FocusEventuallyCompletes ==
    (status = "running" /\ mode = "focus")
        ~> (/\ mode = "break"
            /\ status = "idle"
            /\ deadline = Null
            /\ timeLeft = breakDuration * 60)

\* A focus interval of positive length has run out in the variant part_000.
FocusEventuallyCompletesWitness ==
    /\ variant = "Part"
    /\ lastOp = "complete"
    /\ mode = "break"
    /\ status = "idle"
    /\ timeLeft = breakDuration * 60
    /\ now > Epoch + MaxElapsed

\* C4: a tick at clock now' sets timeLeft to the nearest second of what
\* remains to the deadline, clamped at 0, whatever timeLeft was before; a
\* tick at or after the deadline sets 0, and the completion follows it.
TickFollowsClock ==
    [][/\ lastOp' = "tick"
          => /\ status = "running"
             /\ NearestSecond(timeLeft', Remaining(deadline.n, now'))
             /\ (now' >= deadline.n => timeLeft' = 0)
       /\ (lastOp = "tick" /\ timeLeft = 0)
          => (lastOp' = "complete" \/ phase' = "mount")]_vars

\* A tick has fired late, more than a second after the one before it was
\* due, and found time left.
TickFollowsClockWitness ==
    /\ lastOp = "tick"
    /\ timeLeft > 0
    /\ now > Epoch + MaxElapsed
    /\ deadline # Null
    /\ now < deadline.n

\* C5: pausing clears the deadline and keeps timeLeft; timeLeft stays as it
\* is while the session is paused; resuming at clock now' keeps timeLeft and
\* sets the deadline timeLeft * 1000 ms after now', so that a recomputation
\* at that instant gives the paused timeLeft.
PauseResumeKeepsTimeLeft ==
    [][/\ lastOp' = "pause" => (deadline' = Null /\ timeLeft' = timeLeft)
       /\ (status = "paused" /\ status' = "paused") => timeLeft' = timeLeft
       /\ lastOp' = "resume"
          => /\ status = "paused"
             /\ timeLeft' = timeLeft
             /\ deadline' # Null
             /\ deadline'.n = now' + timeLeft * 1000
             /\ NearestSecond(timeLeft, Remaining(deadline'.n, now'))]_vars

\* A session paused part-way has been resumed after a long absence.
PauseResumeKeepsTimeLeftWitness ==
    /\ lastOp = "resume"
    /\ now >= Epoch + 60000
    /\ timeLeft > 0
    /\ timeLeft # focusDuration * 60

\* The session of a fresh mount.
IsDefaultSession ==
    /\ mode = "focus"
    /\ status = "idle"
    /\ focusDuration = DefaultFocus
    /\ breakDuration = BreakDefault
    /\ timeLeft = DefaultFocus * 60
    /\ deadline = Null
    /\ completionMessage = ""

\* C6: loading a snapshot that is running with a deadline, at clock now',
\* keeps status "running" and the stored deadline and sets timeLeft to the
\* nearest second of what remains to that deadline, clamped at 0: the stored
\* timeLeft plays no part.
LoadRecomputesRunning ==
    [][(/\ lastOp' = "load"
        /\ storage.value.status = Str("running")
        /\ storage.value.deadline.t = "num")
       => /\ status' = "running"
          /\ deadline' = storage.value.deadline
          /\ NearestSecond(timeLeft',
                           Remaining(storage.value.deadline.n, now'))]_vars

\* A running snapshot has been loaded after the clock moved on, with time
\* left that differs from the stored timeLeft.
LoadRecomputesRunningWitness ==
    /\ lastOp = "load"
    /\ status = "running"
    /\ storage.value.status = Str("running")
    /\ timeLeft > 0
    /\ timeLeft < storage.value.timeLeft.n

\* C7: for every session the save effect can write, loading what it writes
\* gives back the same mode, status, focusDuration and breakDuration and,
\* when the status is idle or paused, the same timeLeft.
SaveLoadRoundTrip ==
    isInitialized
    => \A t \in LaterTimes :
        LET l == Loaded(SavedNow.value, t)
        IN  /\ ~LoadSkips(SavedNow)
            /\ ~LoadThrows(SavedNow)
            /\ l.mode = mode
            /\ l.status = status
            /\ l.focusDuration = focusDuration
            /\ l.breakDuration = breakDuration
            /\ (status \in {"idle", "paused"} => l.timeLeft = timeLeft)

\* A session paused part-way in a break has been saved and loaded back.
SaveLoadRoundTripWitness ==
    /\ lastOp = "load"
    /\ status = "paused"
    /\ mode = "break"
    /\ storage.value.status = Str("paused")
    /\ timeLeft > 0
    /\ timeLeft # breakDuration * 60
    /\ timeLeft # focusDuration * 60

\* C8: when the stored text does not parse, or parses to null, the load
\* effect leaves the default session and removes the item.
UnreadableItemDiscarded ==
    [][(/\ phase = "mount"
        /\ phase' = "effects"
        /\ (storage = Malformed \/ storage = Item(Null)))
       => (IsDefaultSession' /\ storage' = NoItem /\ isInitialized')]_vars

\* The load effect has caught an error and removed the item.
UnreadableItemDiscardedWitness ==
    lastOp = "loadFailed" /\ storage = NoItem /\ IsDefaultSession

\* C9 (as claimed): a stored object whose fields are inconsistent is treated
\* as absent: the load effect leaves the default session and removes it.
CorruptObjectDiscarded ==
    [][(/\ phase = "mount"
        /\ phase' = "effects"
        /\ storage \in {Item(o) : o \in CorruptObjects})
       => (IsDefaultSession' /\ storage' = NoItem)]_vars

\* C10 (as claimed): timeLeft is never negative.
TimeLeftNonNegative == timeLeft >= 0

\* C11 (as claimed): both configured durations are at least 1 in every
\* reachable state, whatever text was typed into the duration inputs.
DurationsPositive == focusDuration >= 1 /\ breakDuration >= 1

\* C12: an edit of the focus duration while idle in focus mode, or of the
\* break duration while idle in break mode, stores the value read from the
\* input and sets timeLeft to that value times 60 in the same step.
EditSetsTimeLeft ==
    [][/\ (lastOp' = "editFocus" /\ status = "idle" /\ mode = "focus")
          => \E text \in Inputs :
                /\ focusDuration' = DurationValue(text)
                /\ timeLeft' = DurationValue(text) * 60
       /\ (lastOp' = "editBreak" /\ status = "idle" /\ mode = "break")
          => \E text \in Inputs :
                /\ breakDuration' = DurationValue(text)
                /\ timeLeft' = DurationValue(text) * 60]_vars

\* The break duration has just been edited while idle in break mode: the
\* snapshot saved before the edit still holds the former timeLeft.
EditSetsTimeLeftWitness ==
    /\ lastOp = "editBreak"
    /\ status = "idle"
    /\ mode = "break"
    /\ timeLeft = breakDuration * 60
    /\ breakDuration # BreakDefault
    /\ storage.kind = "json"
    /\ storage.value.status = Str("idle")
    /\ storage.value.mode = Str("break")
    /\ storage.value.timeLeft # Num(timeLeft)

\* C13 (as claimed): an edit made while running or paused, or of the duration
\* of the other mode, changes only the stored duration, and the stored
\* duration is the one a later reset or completion turns into timeLeft.
EditedValueUsedNext ==
    [][/\ (lastOp' = "editFocus" /\ ~(status = "idle" /\ mode = "focus"))
          => UNCHANGED <<breakDuration, timeLeft, status, mode, deadline,
                         completionMessage>>
       /\ (lastOp' = "editBreak" /\ ~(status = "idle" /\ mode = "break"))
          => UNCHANGED <<focusDuration, timeLeft, status, mode, deadline,
                         completionMessage>>
       /\ lastOp' \in {"reset", "complete"}
          => timeLeft' = 60 * (IF mode' = "focus" THEN focusDuration
                                                  ELSE breakDuration)]_vars

\* C13 (amended): an edit made while running or paused, or of the duration
\* of the other mode, changes only the stored duration; a later reset turns
\* the stored duration of the current mode into timeLeft, and so does a
\* completion in App.tsx, while a completion in part_000 discards the stored
\* durations and starts the next interval from the fixed 10 or 30 minutes.
EditElsewhereKeepsTimer ==
    [][/\ (lastOp' = "editFocus" /\ ~(status = "idle" /\ mode = "focus"))
          => UNCHANGED <<breakDuration, timeLeft, status, mode, deadline,
                         completionMessage>>
       /\ (lastOp' = "editBreak" /\ ~(status = "idle" /\ mode = "break"))
          => UNCHANGED <<focusDuration, timeLeft, status, mode, deadline,
                         completionMessage>>
       /\ (lastOp' = "reset" \/ (lastOp' = "complete" /\ variant = "App"))
          => /\ timeLeft' = 60 * (IF mode' = "focus" THEN focusDuration
                                                     ELSE breakDuration)
             /\ UNCHANGED <<focusDuration, breakDuration>>
       /\ (lastOp' = "complete" /\ variant = "Part")
          => /\ timeLeft' = 60 * (IF mode' = "focus" THEN PartFocusDefault
                                                     ELSE BreakDefault)
             /\ (mode' = "focus" => focusDuration' = PartFocusDefault)
             /\ breakDuration' = BreakDefault]_vars

\* The break duration has just been edited during a running focus interval:
\* the saved snapshot holds the former break duration, and the countdown is
\* as it was saved.
EditElsewhereKeepsTimerWitness ==
    /\ lastOp = "editBreak"
    /\ status = "running"
    /\ mode = "focus"
    /\ deadline # Null
    /\ storage.kind = "json"
    /\ storage.value.breakDuration # Num(breakDuration)
    /\ storage.value.status = Str("running")
    /\ storage.value.timeLeft = Num(timeLeft)
    /\ storage.value.deadline = deadline

\* C14: a reset of the current interval, from any status and in either mode,
\* leaves status idle, no deadline, an empty completion message and
\* timeLeft = 60 * the configured duration of the current mode, with the mode
\* and both durations unchanged.
ResetRestoresInterval ==
    [][lastOp' = "reset"
       => /\ status' = "idle"
          /\ deadline' = Null
          /\ completionMessage' = ""
          /\ timeLeft' = 60 * (IF mode = "focus" THEN focusDuration
                                                 ELSE breakDuration)
          /\ UNCHANGED <<mode, focusDuration, breakDuration>>]_vars

\* A paused break whose duration is not the focus duration has just been
\* reset part-way: the saved snapshot is the paused one.
ResetRestoresIntervalWitness ==
    /\ lastOp = "reset"
    /\ status = "idle"
    /\ mode = "break"
    /\ breakDuration # focusDuration
    /\ timeLeft = breakDuration * 60
    /\ storage.kind = "json"
    /\ storage.value.status = Str("paused")
    /\ storage.value.timeLeft # Num(timeLeft)

\* C15 (as claimed): reset-to-default, from any status and mode, leaves
\* status idle, mode focus, no deadline, an empty completion message, the
\* focus duration at its default (50 in App.tsx, 30 in part_000) and
\* timeLeft = 60 * that default, whatever focus duration was configured.
ResetToStartRestoresDefault ==
    [][lastOp' = "resetToStart"
       => /\ status' = "idle"
          /\ mode' = "focus"
          /\ deadline' = Null
          /\ completionMessage' = ""
          /\ focusDuration' = DefaultFocus
          /\ timeLeft' = DefaultFocus * 60]_vars

\* C16: when a break completes the mode becomes focus, the status idle, the
\* deadline absent and timeLeft = 60 * the focus duration of the resulting
\* state, with completionMessage "Fim da pausa" in App.tsx and empty in
\* part_000; a completed focus hands over to break, so every completion
\* hands over to the other mode.
BreakCompletionReturnsToFocus ==
    [][lastOp' = "complete"
       => /\ mode = "break"
             => /\ mode' = "focus"
                /\ status' = "idle"
                /\ deadline' = Null
                /\ timeLeft' = focusDuration' * 60
                /\ completionMessage' =
                       IF variant = "App" THEN "Fim da pausa" ELSE ""
          /\ mode = "focus" => mode' = "break"
          /\ mode' # mode]_vars

\* A running break whose duration is not the focus duration has just
\* completed in App.tsx: the saved snapshot is the expired break.
BreakCompletionReturnsToFocusWitness ==
    /\ lastOp = "complete"
    /\ mode = "focus"
    /\ status = "idle"
    /\ completionMessage = "Fim da pausa"
    /\ focusDuration # breakDuration
    /\ timeLeft = focusDuration * 60
    /\ storage.kind = "json"
    /\ storage.value.mode = Str("break")
    /\ storage.value.status = Str("running")
    /\ storage.value.timeLeft = Num(0)

\* C17 (as claimed): for every timeLeft = t, a start from idle sets status
\* running, clears the completion message, sets deadline = now + t * 1000 and
\* leaves timeLeft, mode and both durations unchanged, and the interval
\* callback evaluated at that same instant recomputes timeLeft = t.
StartKeepsTimeLeft ==
    [][(lastOp' = "start" /\ status = "idle")
       => /\ status' = "running"
          /\ completionMessage' = ""
          /\ deadline' = Num(now' + timeLeft * 1000)
          /\ UNCHANGED <<timeLeft, mode, focusDuration, breakDuration>>
          /\ TickTimeLeft(deadline'.n, now') = timeLeft']_vars

\* C18: the interval is armed only while the status is running with a
\* deadline, and then for that deadline (the single handle the timer effect
\* holds); once the effects of a commit have run it is cancelled whenever the
\* status is not running, and a torn-down component has none; the interval
\* callback runs, and writes timeLeft, only while running.
IntervalOnlyWhileRunning ==
    /\ []((interval # Null /\ phase = "ready")
          => (status = "running" /\ deadline # Null /\ interval = deadline))
    /\ []((phase = "ready" /\ status # "running") => interval = Null)
    /\ [](phase = "mount" => interval = Null)
    /\ [][lastOp' = "tick"
          => (status = "running" /\ status' = "running"
              /\ interval = deadline)]_vars
    /\ [][(status \in {"idle", "paused"} /\ status' = status
           /\ timeLeft' # timeLeft)
          => lastOp' # "tick"]_vars

\* A focus interval that ticked part-way has been paused, and the effects of
\* that commit have cancelled its interval.
IntervalOnlyWhileRunningWitness ==
    /\ phase = "ready"
    /\ status = "paused"
    /\ mode = "focus"
    /\ interval = Null
    /\ timeLeft > 0
    /\ timeLeft < focusDuration * 60

\* C19: nothing is written to the stored item before the load effect has
\* run (the only change at mount is the removal of an item the load effect
\* could not read), so an item present at mount is never overwritten by the
\* default session; every later write is the snapshot of the current
\* session, and the first one after a mount is the snapshot of the session
\* the load effect left: the loaded one, or the defaults when nothing
\* readable was stored.
NoSaveBeforeLoad ==
    /\ [](~isInitialized => phase = "mount")
    /\ [][phase = "mount"
          => \/ storage' = storage
             \/ LoadThrows(storage) /\ storage' = NoItem]_vars
    /\ [][storage' # storage
          => \/ phase = "mount" /\ storage' = NoItem
             \/ isInitialized /\ storage' = SavedNow]_vars
    /\ [][(/\ lastOp \in {"load", "loadAbsent", "loadFailed"}
           /\ phase = "effects"
           /\ phase' # "mount")
          => /\ storage' = SavedNow
             /\ (lastOp # "load" => IsDefaultSession)]_vars

\* A paused session that is not the default one has been loaded, and the
\* stored item is still the snapshot that was found at mount.
NoSaveBeforeLoadWitness ==
    /\ lastOp = "load"
    /\ phase = "effects"
    /\ status = "paused"
    /\ ~IsDefaultSession
    /\ storage.kind = "json"
    /\ storage.value.status = Str("paused")
    /\ storage.value.timeLeft = Num(timeLeft)
    /\ storage.value.focusDuration = Num(focusDuration)

\* C20: in every reachable state whose status is idle, timeLeft is 60 times
\* the configured duration of the current mode.
IdleShowsConfiguredDuration ==
    status = "idle"
    => timeLeft = 60 * (IF mode = "focus" THEN focusDuration
                                          ELSE breakDuration)

\* The focus duration has just been edited while idle in break mode, to a
\* value other than the break duration.
IdleShowsConfiguredDurationWitness ==
    /\ lastOp = "editFocus"
    /\ status = "idle"
    /\ mode = "break"
    /\ focusDuration # breakDuration
    /\ storage.kind = "json"
    /\ storage.value.focusDuration # Num(focusDuration)
    /\ timeLeft = breakDuration * 60

\* C21: the completion message is non-empty only while idle and names the
\* interval that has just finished ("Foco finalizado" only in break mode,
\* "Fim da pausa" only in focus mode); every start, reset and
\* reset-to-default leaves it empty, so it is empty in every running or
\* paused state.
MessageNamesFinishedInterval ==
    /\ [](completionMessage \in {"", "Foco finalizado", "Fim da pausa"})
    /\ [](completionMessage # "" => status = "idle")
    /\ [](completionMessage = "Foco finalizado" => mode = "break")
    /\ [](completionMessage = "Fim da pausa" => mode = "focus")
    /\ [](status \in {"running", "paused"} => completionMessage = "")
    /\ [][lastOp' \in {"start", "reset", "resetToStart"}
          => completionMessage' = ""]_vars

\* A break has been started from the idle state a completed focus left: the
\* saved snapshot still carries the message, the running session none.
MessageNamesFinishedIntervalWitness ==
    /\ lastOp = "start"
    /\ status = "running"
    /\ mode = "break"
    /\ completionMessage = ""
    /\ storage.kind = "json"
    /\ storage.value.status = Str("idle")
    /\ storage.value.completionMessage = Str("Foco finalizado")

(***************************************************************************)
(* The controls the render offers (App.tsx 265-355, part_000 242-301; the  *)
(* two renders have the same conditions), and the program driven only      *)
(* through them.                                                           *)
(***************************************************************************)
\* status === "idle" && !completionMessage: the focus input and
\* "Iniciar Foco".
ShowsFocusStart == status = "idle" /\ completionMessage = ""

\* status === "idle" && completionMessage && mode === "break": the break
\* input and "Iniciar Pausa".
ShowsBreakStart ==
    status = "idle" /\ completionMessage # "" /\ mode = "break"

\* Mutant: pause and reset are offered in break intervals too.
MutShowsPauseAlways == status \in {"running", "paused"}

\* (status === "running" || status === "paused") && mode === "focus":
\* "Pausar" / "Continuar" and "Redefinir".
ShowsPauseReset == status \in {"running", "paused"} /\ mode = "focus"

\* "Nova Sessao de Foco" (idle with a message in focus mode) and
\* "Pular Pausa" (running or paused outside focus mode).
ShowsResetToStart ==
    \/ status = "idle" /\ completionMessage # "" /\ mode = "focus"
    \/ status \in {"running", "paused"} /\ mode # "focus"

Offered ==
    \/ LoadEffect
    \/ RunEffects
    \/ Tick
    \/ Reload
    \/ ((ShowsFocusStart \/ ShowsBreakStart) /\ StartTimer)
    \/ (ShowsFocusStart /\ UpdateFocusDuration)
    \/ (ShowsBreakStart /\ UpdateBreakDuration)
    \/ (ShowsPauseReset /\ Pause)
    \/ (ShowsPauseReset /\ Resume)
    \/ (ShowsPauseReset /\ ResetTimer)
    \/ (ShowsResetToStart /\ ResetToStart)

OfferedSpec == Init /\ [][Offered]_vars

\* C22: when the handlers run only from the controls the render offers, a
\* paused session is always in focus mode and an idle session in break mode
\* always carries "Foco finalizado", so the focus input and "Iniciar Foco"
\* are never shown for a break interval.
FocusStartOnlyForFocus ==
    /\ (status = "paused" => mode = "focus")
    /\ ((status = "idle" /\ mode = "break")
        => completionMessage = "Foco finalizado")
    /\ (ShowsFocusStart => mode = "focus")

\* The break duration has just been edited on the screen a completed focus
\* left: idle, in break mode, with the message.
FocusStartOnlyForFocusWitness ==
    /\ lastOp = "editBreak"
    /\ status = "idle"
    /\ mode = "break"
    /\ completionMessage = "Foco finalizado"
    /\ storage.kind = "json"
    /\ storage.value.breakDuration # Num(breakDuration)

\* C23: the looping alert of part_000 plays only while the status is idle:
\* at most one Audio element is playing, and it is the one audioRef holds;
\* startTimer leaves none playing; and in no running or paused state is an
\* alert looping.
AlertOnlyWhileIdle ==
    /\ [](audio = "loop" => (variant = "Part" /\ status = "idle"))
    /\ [](playing = IF audio = "loop" THEN 1 ELSE 0)
    /\ [](status \in {"running", "paused"}
          => (audio = "off" /\ playing = 0))
    /\ [][lastOp' = "start" => (audio' = "off" /\ playing' = 0)]_vars

\* A break has just completed in part_000 and its alert is looping in the
\* idle session that follows.
AlertOnlyWhileIdleWitness ==
    /\ variant = "Part"
    /\ lastOp = "complete"
    /\ status = "idle"
    /\ mode = "focus"
    /\ audio = "loop"
    /\ playing = 1
    /\ storage.kind = "json"
    /\ storage.value.mode = Str("break")
    /\ storage.value.status = Str("running")

=============================================================================
